---- MODULE Spec2Model ----
(***************************************************************************)
(* Model of the transcript-to-JSON batch pipeline (workflows/              *)
(* transcript_to_json.py) and of the LLM providers it drives (base/        *)
(* provider.py, llm/gemini.py, llm/openai.py).                             *)
(*                                                                         *)
(* The program is a single-threaded asyncio program: the code between two  *)
(* await points runs without interleaving.  Each action below is one such  *)
(* block; the await points are the semaphore acquire, the backend network  *)
(* call, the backoff sleep and (OpenAI variant) the client close.          *)
(***************************************************************************)
EXTENDS Integers, Sequences, FiniteSets, TLC

\* ---------------------------------------------------------------- bounds
\* max_retries of a provider instance (GEMINI_MAX_RETRIES / OPENAI_MAX_RETRIES
\* of the environment; at least 1)
MAX_RETRIES == 2
\* length of the provider's api_keys list
NumKeys == 2
\* largest max_workers argument tried
MaxWorkers == 2
\* number of successive pipeline runs (process launches) over one directory
MaxRuns == 2

\* ------------------------------------------------------------- constants
INPUT_FILE_EXT == ".f.txt"
OUTPUT_FILE_EXT == ".json"
ERROR_FILE_SUFFIX == ".error.txt"

\* A file name is a sequence of tokens; str.replace and str.endswith act on
\* the tokens.
FileA == <<"a", ".f.txt">>
FileB == <<"b", ".f.txt">>
FileC == <<"c", ".f.txt">>
Notes == <<"notes", ".txt">>
\* "a.f.txt.f.txt" and "a.json.f.txt": names that hold the input suffix, or
\* the output suffix, before their last suffix
FileAA == <<"a", ".f.txt", ".f.txt">>
FileAJ == <<"a", ".json", ".f.txt">>
\* the names an input directory may list
Names == {FileA, FileB, FileC, Notes, FileAA, FileAJ}

endswith(name, ext) == Len(name) > 0 /\ name[Len(name)] = ext

replace(name, old, new) ==
    [i \in 1..Len(name) |-> IF name[i] = old THEN new ELSE name[i]]

OutputFileName(f) == replace(f, INPUT_FILE_EXT, OUTPUT_FILE_EXT)

ErrorFileName(f) == Append(f, ERROR_FILE_SUFFIX)

Eligible == {f \in Names : endswith(f, INPUT_FILE_EXT)}

\* the paths of OUTPUT_DIR the program can touch
Paths == {OutputFileName(f) : f \in Eligible} \cup {ErrorFileName(f) : f \in Eligible}

\* content of a path of OUTPUT_DIR
Absent == "absent"
FileContents == {"absent", "json", "raw", "partial"}

exists(d, p) == d[p] # Absent

\* ------------------------------------------------------ provider: keys
api_keys == [i \in 1..NumKeys |-> <<"key", i>>]

\* get_next_key: the key returned for index i
KeyAt(i) == api_keys[i + 1]

NextKeyIndexStuck(i) == i

\* get_next_key: the index after the call
NextKeyIndex(i) == (i + 1) % Len(api_keys)

\* ------------------------------------------- provider: retry policy
\* An error message is modelled by the set of marker substrings its
\* lower-cased text contains.
GEMINI_KEYWORDS == {"rate", "quota", "429", "500", "503"}

OPENAI_KEYWORDS == {"rate", "limit", "429", "500", "503"}

Keywords(v) == IF v = "gemini" THEN GEMINI_KEYWORDS ELSE OPENAI_KEYWORDS

IsRetryableNever(v, msg) == FALSE

IsRetryableAlways(v, msg) == TRUE

\* any(keyword in error_msg for keyword in [...])
IsRetryable(v, msg) == (msg \cap Keywords(v)) # {}

\* str(ValueError("... response trống ...")).lower() holds no marker
EmptyResponseMsg == {}

\* RETRY_BASE_DELAY (1.0 s) and RETRY_JITTER_MAX (0.5 s), in tenths of a second
RETRY_BASE_DELAY == 10
RETRY_JITTER_MAX == 5

WaitTimeZeroBased(n, j) == RETRY_BASE_DELAY * (2 ^ n) + j

\* wait_time = retry_base_delay * 2 ** (attempt - 1) + random.uniform(0, jitter_max)
WaitTime(n, j) == RETRY_BASE_DELAY * (2 ^ (n - 1)) + j

HasNextAttemptOffByOne(n) == n <= MAX_RETRIES

\* for attempt in range(1, max_retries + 1): is there an iteration after n
HasNextAttempt(n) == n < MAX_RETRIES

\* -------------------------------------------------- texts and parsing
\* A backend text: a JSON body ("obj" a non-empty object, "emptyobj" {},
\* "none" no JSON at all), possibly wrapped in markdown fences, possibly
\* surrounded by prose.
NoText == [fenced |-> FALSE, prose |-> FALSE, body |-> "unset"]
Texts == { [fenced |-> FALSE, prose |-> FALSE, body |-> "obj"],
           [fenced |-> TRUE,  prose |-> FALSE, body |-> "obj"],
           [fenced |-> FALSE, prose |-> TRUE,  body |-> "obj"],
           [fenced |-> FALSE, prose |-> FALSE, body |-> "emptyobj"],
           [fenced |-> TRUE,  prose |-> FALSE, body |-> "emptyobj"],
           [fenced |-> FALSE, prose |-> TRUE,  body |-> "none"] }

DirectObj == [fenced |-> FALSE, prose |-> FALSE, body |-> "obj"]

\* json.loads(text): the value, or "JSONDecodeError"
json_loads(t) ==
    IF ~t.fenced /\ ~t.prose /\ t.body \in {"obj", "emptyobj"}
    THEN t.body ELSE "JSONDecodeError"

\* ContextOptimizer.parse_json_safely: the value, or "None"
parse_json_safely(t) ==
    IF json_loads(t) # "JSONDecodeError" THEN json_loads(t)
    ELSE IF json_loads([t EXCEPT !.fenced = FALSE]) # "JSONDecodeError"
         THEN json_loads([t EXCEPT !.fenced = FALSE])
    ELSE IF t.body \in {"obj", "emptyobj"}
         THEN json_loads([fenced |-> FALSE, prose |-> FALSE, body |-> t.body])
    ELSE "None"

\* Python truth value of the parsed data
Truthy(data) == data = "obj"

\* process_file step 5: the data to save, or "JSONDecodeError"
ValidateJson(t) ==
    IF Truthy(parse_json_safely(t)) THEN parse_json_safely(t) ELSE json_loads(t)

\* ------------------------------------------------------------ backend
Outcome(k, t, m) == [kind |-> k, text |-> t, msg |-> m]

ErrorMessages == { {"rate", "limit"}, {"quota"}, {"limit"}, {"503"}, {} }

AllOutcomes ==
    {Outcome("text", t, {}) : t \in Texts}
    \cup {Outcome("empty", NoText, {})}
    \cup {Outcome("error", NoText, m) : m \in ErrorMessages}

NoOutcome == Outcome("none", NoText, {})

ResponseHasTextAlways(o) == o.kind # "error"

\* "if response.text:" / "if response.choices and ...message.content:"
ResponseHasText(o) == o.kind = "text"

ReturnValueStripped(o) == [o.text EXCEPT !.fenced = FALSE]

\* "return response.text" / "return content"
ReturnValue(o) == o.text

\* str(e).lower() of the exception the except clause sees
ErrorMsg(o) == IF o.kind = "error" THEN o.msg ELSE EmptyResponseMsg

\* input of the scenario: a backend that rate-limits B once and otherwise
\* returns well-formed JSON
ScriptedOutcomes(f, n) ==
    IF f = FileB /\ n = 1
    THEN {Outcome("error", NoText, {"rate", "limit"})}
    ELSE {Outcome("text", DirectObj, {})}

\* outcome of a local file operation: done, open() failed, write failed
\* after open() created the file
IOOutcomes == {"ok", "open_fail", "write_fail"}

\* ------------------------------------------------------- registry
\* The environment: GEMINI_API_KEYS and OPENAI_API_KEYS are modelled by their
\* comma-separated fields (<<>> is the empty or unset string), a field by its
\* text with the surrounding blanks apart; DEFAULT_AI_PROVIDER by its text.
Blank == [pad |-> TRUE, core |-> <<>>]

Field(k) == [pad |-> TRUE, core |-> k]

\* "": unset or empty
NoKeys == <<>>

\* " , ": only blanks and commas
BlankKeys == <<Blank, Blank>>

\* " key1 ,  , key2 , ...": every key of api_keys, padded, after a blank field
GoodKeys == <<Field(api_keys[1]), Blank>> \o [i \in 1..(NumKeys - 1) |-> Field(api_keys[i + 1])]

KeyStrings == {NoKeys, BlankKeys, GoodKeys}

Unset == "<unset>"

None == "<None>"

EnvChoices ==
    [gemini_keys : KeyStrings, openai_keys : KeyStrings,
     default : {Unset, "OpenAI", "claude"}]

\* the environments with exactly one provider configured and no default set
PipelineEnvs ==
    { e \in EnvChoices :
        /\ e.default = Unset
        /\ \/ e.gemini_keys = GoodKeys /\ e.openai_keys = NoKeys
           \/ e.gemini_keys = NoKeys /\ e.openai_keys = GoodKeys }

\* os.getenv(name, default)
getenv(value, dflt) == IF value = Unset THEN dflt ELSE value

\* str.lower on the names used here
lower(str) ==
    CASE str = "OpenAI" -> "openai"
      [] str = "Gemini" -> "gemini"
      [] OTHER -> str

\* k.strip()
strip(field) == field.core

\* [k.strip() for k in raw.split(",") if k.strip()]
StripKeys(raw) == SelectSeq([i \in 1..Len(raw) |-> strip(raw[i])], LAMBDA k : k # <<>>)

\* a provider object: its class and the keys it was built with
ProviderInstance(cls, keys) == [class |-> cls, api_keys |-> keys]

NoInstance == ProviderInstance("none", <<>>)

\* "if gemini_keys:" and "if keys:": the provider is registered, or not
LoadOne(name, raw) ==
    IF raw # <<>> /\ StripKeys(raw) # <<>>
    THEN << [name |-> name, instance |-> ProviderInstance(name, StripKeys(raw))] >>
    ELSE <<>>

\* _load_providers: self.providers, in insertion order
LoadProviders(e) == LoadOne("gemini", e.gemini_keys) \o LoadOne("openai", e.openai_keys)

\* "if not self.providers: raise ValueError"
RegistryEmpty(ps) == ps = <<>>

\* list(self.providers.keys())
get_available_providers(ps) == [i \in 1..Len(ps) |-> ps[i].name]

Registered(ps, name) == \E i \in 1..Len(ps) : ps[i].name = name

\* self.providers[name]
InstanceOf(ps, name) == ps[CHOOSE i \in 1..Len(ps) : ps[i].name = name].instance

DefaultProviderUnchecked(ps, e) == lower(getenv(e.default, "gemini"))

\* "Set default provider": the configured default, lower-cased, if it is
\* registered, else the first registered provider
DefaultProvider(ps, e) ==
    IF Registered(ps, lower(getenv(e.default, "gemini")))
    THEN lower(getenv(e.default, "gemini"))
    ELSE get_available_providers(ps)[1]

NoDefault == "none"

NameArgs == {None, "", "gemini", "openai", "Gemini", "claude"}

ProviderNameDefault(name, dflt) == dflt

\* provider_name = provider or self.default_provider
ProviderName(name, dflt) == IF name \notin {None, ""} THEN name ELSE dflt

NotCalled == [ok |-> FALSE, instance |-> NoInstance, error |-> "not called"]

\* get_provider: the instance, or ValueError
get_provider(ps, dflt, name) ==
    IF Registered(ps, ProviderName(name, dflt))
    THEN [ok |-> TRUE, instance |-> InstanceOf(ps, ProviderName(name, dflt)),
          error |-> "none"]
    ELSE [ok |-> FALSE, instance |-> NoInstance, error |-> "ValueError"]

\* the concrete providers' close() is "pass"; close() of the
\* BaseLLMProvider interface is abstract and may raise
ProviderNames == {"gemini", "openai"}

\* close_all: "for provider in self.providers.values(): await provider.close()"
\* where close() of the providers in raises raises: the providers whose
\* close() was called, and how close_all ended
close_all(ps, raises) ==
    LET bad == {i \in 1..Len(ps) : ps[i].name \in raises}
        last == IF bad = {} THEN Len(ps)
                ELSE CHOOSE i \in bad : \A k \in bad : i <= k
    IN  [closed |-> [i \in 1..last |-> ps[i].name],
         status |-> IF bad = {} THEN "completed" ELSE "raised"]

ConstructedLazily == FALSE

\* "llm_manager = LLMManager()" runs when the workflow module is imported
ConstructedAtImport == TRUE

VARIABLES
    env,                \* environment variables of the process
    provider_arg,       \* provider name on the command line, or None
    registry,           \* LLMManager: "unbuilt", "built", "failed"
    providers,          \* LLMManager.providers, in insertion order
    default_provider,   \* LLMManager.default_provider
    calls,              \* per name: result of get_provider(name), once called
    available,          \* what get_available_providers() returned
    closed,             \* providers whose close() was called by close_all
    shutdown,           \* how close_all ended: "none", "completed", "raised"
    fake,               \* "any": arbitrary backend; "scenario": the scripted fake
    max_workers,        \* run_workflow argument
    input_dir,          \* os.listdir(input_dir)
    run_limit,          \* how many times the pipeline is launched
    current_key_index,  \* BaseLLMProvider.current_key_index
    attemptsIssued,     \* number of network attempts issued on the instance
    lastKey,            \* key used by the latest network attempt
    disk,               \* OUTPUT_DIR: path -> content
    runState,           \* "idle", "startup_failed", "running", "closing", "returned", "aborted"
    runNo,              \* runs started so far
    files,              \* work set of the current run
    skipped_count,
    pc,                 \* per file: where its task is
    attempt,            \* per file: loop variable of generate
    after,              \* per file (OpenAI): what follows client.close()
    text,               \* per file (OpenAI): text being returned
    tele,               \* per file: statuses logged by its logical call
    result,             \* per file: status of its Job Result
    cause,              \* per file: why the task ended as it did
    sem,                \* free permits of the semaphore
    summary,            \* what the run reported
    wrote,              \* paths written by the current run
    succeeded,          \* files that got a success Job Result in some run
    closeCalls,         \* close_all invocations of the current run
    sleeps,             \* per file: backoff sleeps its logical call started
    wait_time,          \* per file: length of the sleep in progress
    observe,            \* whether responses and return values are recorded
    got,                \* per file: latest backend response (when observed)
    ret,                \* per file: text generate returned (when observed)
    artifact,           \* per file: text written to its error artifact (when observed)
    useIdx,             \* per file: key index each of its attempts used (when observed)
    logIdx,             \* per file: api_key_index of each of its records (when observed)
    sink_ok,            \* whether writes to the telemetry log file succeed
    trace_keys          \* whether the key indexes used and logged are recorded

vars == <<env, provider_arg, registry, providers, default_provider, calls,
          available, closed, shutdown, fake, max_workers, input_dir, run_limit, current_key_index, attemptsIssued, lastKey,
          disk, runState, runNo, files, skipped_count, pc, attempt, after, text,
          tele, result, cause, sem, summary, wrote, succeeded, closeCalls,
          sleeps, wait_time, observe, got, ret, artifact, useIdx, logIdx, sink_ok,
          trace_keys>>

\* process_file: llm = llm_manager.get_provider(provider)
Resolved == get_provider(providers, default_provider, provider_arg)

\* class of the provider process_file works with
variant == Resolved.instance.class

NotAsked == <<"not asked">>

NoSummary == [kind |-> "none", processed |-> 0, skipped |-> 0,
              success_count |-> 0, error_count |-> 0]

InitState ==
    /\ registry = "unbuilt"
    /\ providers = <<>>
    /\ default_provider = NoDefault
    /\ calls = [n \in NameArgs |-> NotCalled]
    /\ available = NotAsked
    /\ closed = <<>>
    /\ shutdown = "none"
    /\ current_key_index = 0
    /\ attemptsIssued = 0
    /\ lastKey = <<"key", 0>>
    /\ disk = [p \in Paths |-> Absent]
    /\ runState = "idle"
    /\ runNo = 0
    /\ files = {}
    /\ skipped_count = 0
    /\ pc = [f \in Eligible |-> "none"]
    /\ attempt = [f \in Eligible |-> 0]
    /\ after = [f \in Eligible |-> "none"]
    /\ text = [f \in Eligible |-> NoText]
    /\ tele = [f \in Eligible |-> <<>>]
    /\ result = [f \in Eligible |-> "none"]
    /\ cause = [f \in Eligible |-> "none"]
    /\ sem = 0
    /\ summary = NoSummary
    /\ wrote = {}
    /\ succeeded = {}
    /\ closeCalls = 0
    /\ sleeps = [f \in Eligible |-> 0]
    /\ wait_time = [f \in Eligible |-> 0]
    /\ got = [f \in Eligible |-> NoOutcome]
    /\ ret = [f \in Eligible |-> NoText]
    /\ artifact = [f \in Eligible |-> NoText]
    /\ useIdx = [f \in Eligible |-> <<>>]
    /\ logIdx = [f \in Eligible |-> <<>>]

\* one provider configured, none named on the command line
InitCommon ==
    /\ InitState
    /\ env \in PipelineEnvs
    /\ provider_arg = None

\* one run over three transcripts, any backend, any local I/O failure
Init ==
    /\ InitCommon
    /\ fake = "any"
    /\ max_workers \in 1..MaxWorkers
    /\ input_dir = {FileA, FileB, FileC, Notes}
    /\ run_limit = 1
    /\ observe = FALSE
    /\ sink_ok = TRUE
    /\ trace_keys = FALSE

\* successive runs over a directory of two transcripts
InitRerun ==
    /\ InitCommon
    /\ fake = "any"
    /\ max_workers \in 1..MaxWorkers
    /\ input_dir = {FileA, FileB, Notes}
    /\ run_limit = MaxRuns
    /\ observe = FALSE
    /\ sink_ok = TRUE
    /\ trace_keys = FALSE

InitScenario ==
    /\ InitCommon
    /\ fake = "scenario"
    /\ max_workers = 2
    /\ input_dir = {FileA, FileB, FileC}
    /\ run_limit = 1
    /\ observe = FALSE
    /\ sink_ok = TRUE
    /\ trace_keys = FALSE

\* one run over two transcripts; every response, return value and random
\* jitter of the logical calls is recorded
InitCall ==
    /\ InitCommon
    /\ fake = "any"
    /\ max_workers \in 1..MaxWorkers
    /\ input_dir = {FileA, FileB}
    /\ run_limit = 1
    /\ observe = TRUE
    /\ sink_ok = TRUE
    /\ trace_keys = FALSE

\* ------------------------------------------------------- run_workflow
InWorkSetAlways(d, f) == TRUE

\* scan: a file goes to the work set unless os.path.exists(output_path)
InWorkSet(d, f) == ~exists(d, OutputFileName(f))

\* the files list built by the scan loop
ScanFiles(dir, d) == {f \in dir : endswith(f, INPUT_FILE_EXT) /\ InWorkSet(d, f)}

\* skipped_count after the scan loop
ScanSkipped(dir, d) ==
    Cardinality({f \in dir : endswith(f, INPUT_FILE_EXT) /\ ~InWorkSet(d, f)})

CanAcquireAlways(s) == TRUE

\* asyncio.Semaphore.acquire returns only while a permit is free
CanAcquire(s) == s > 0

ExceptHandlerReraises == FALSE

\* process_file's "except Exception" returns the error dict (it does not raise)
ExceptHandlerReturns == TRUE

InFlightStates == {"calling", "sleeping", "client_close"}

BackendChoices(f, n) == IF fake = "any" THEN AllOutcomes ELSE ScriptedOutcomes(f, n)

ReadChoices == IF fake = "any" THEN {"ok", "open_fail"} ELSE {"ok"}

WriteChoices == IF fake = "any" THEN IOOutcomes ELSE {"ok"}

\* values random.uniform(0, jitter_max) may give
JitterChoices == IF observe THEN 0..RETRY_JITTER_MAX ELSE {0}

\* open(path, 'w') followed by the write
WriteFile(d, p, c, io) ==
    CASE io = "ok" -> [d EXCEPT ![p] = c]
      [] io = "open_fail" -> d
      [] io = "write_fail" -> [d EXCEPT ![p] = "partial"]

Touched(p, io) == IF io = "open_fail" THEN {} ELSE {p}

SaveErrorSkipped(d, f, io) == d

\* process_file: "Save error for debugging" writes json_str to error_path
SaveError(d, f, io) == WriteFile(d, ErrorFileName(f), "raw", io)

\* process_file step 6: json.dump(data) to output_path
SaveResult(d, f, io) == WriteFile(d, OutputFileName(f), "json", io)

\* What one block of a task does to the state: the task's next position, its
\* Job Result, whether the semaphore is released, the disk, the statuses
\* logged, what is pending behind client.close(), whether a key is taken and
\* a network attempt issued.
Effect(p, r, c, rel, d, w, lg, a, t, iss) ==
    [pc |-> p, result |-> r, cause |-> c, release |-> rel, disk |-> d,
     wrote |-> w, log |-> lg, after |-> a, text |-> t, issue |-> iss,
     wait |-> 0, heard |-> NoOutcome, returns |-> NoText, saved |-> NoText]

ReleasesPermitOnSuccess(st) == st = "success"

\* worker: "async with semaphore" gives the permit back however
\* process_file ended
ReleasesPermit(st) == TRUE

\* process_file returns a Job Result; "async with semaphore" releases
Returned(st, c, d, w, lg) ==
    Effect("done", st, c, ReleasesPermit(st), d, w, lg, "none", NoText, FALSE)

\* an exception reaches process_file's "except Exception as e"
Caught(c, d, w, lg) ==
    IF ExceptHandlerReturns
    THEN Returned("error", c, d, w, lg)
    ELSE Effect("raised", "none", c, TRUE, d, w, lg, "none", NoText, FALSE)

ArtifactTextCleaned(t) == [t EXCEPT !.prose = FALSE, !.fenced = FALSE]

\* process_file: f.write(json_str)
ArtifactText(t) == t

\* process_file steps 5 and 6, given the text generate returned
SaveStep(f, t, io, lg) ==
    IF ValidateJson(t) = "JSONDecodeError"
    THEN IF io = "ok"
         THEN [Returned("error", "extraction", SaveError(disk, f, io),
                        wrote \cup Touched(ErrorFileName(f), io), lg)
                  EXCEPT !.saved = ArtifactText(t)]
         ELSE Caught("write_io", SaveError(disk, f, io),
                     wrote \cup Touched(ErrorFileName(f), io), lg)
    ELSE IF io = "ok"
         THEN Returned("success", "success", SaveResult(disk, f, io),
                       wrote \cup Touched(OutputFileName(f), io), lg)
         ELSE Caught("write_io", SaveResult(disk, f, io),
                     wrote \cup Touched(OutputFileName(f), io), lg)

\* generate: top of a loop iteration (get_next_key, client, network call)
IssueAttempt == Effect("calling", "none", "none", FALSE, disk, wrote, <<>>, "none", NoText, TRUE)

FinalFailureLogNothing == <<>>

\* generate: "Log final failure after all retries"
FinalFailureLog == <<"failed_after_retries">>

\* generate: after iteration n ended with "continue"
NextIteration(f) ==
    IF HasNextAttempt(attempt[f])
    THEN IssueAttempt
    ELSE Caught("exhausted", disk, wrote, FinalFailureLog)

\* OpenAI: "finally: await client.close()" stands between the block and what follows
BehindClose(a, t, lg) ==
    Effect("client_close", "none", "none", FALSE, disk, wrote, lg, a, t, FALSE)

\* generate: the backend answered attempt attempt[f] with outcome o
OnOutcome(f, o, io, j) ==
    IF ResponseHasText(o)
    THEN IF variant = "gemini"
         THEN [SaveStep(f, ReturnValue(o), io, <<"success">>) EXCEPT
                   !.heard = o, !.returns = ReturnValue(o)]
         ELSE [BehindClose("return", ReturnValue(o), <<"success">>) EXCEPT !.heard = o]
    ELSE IF IsRetryable(variant, ErrorMsg(o))
         THEN [Effect("sleeping", "none", "none", FALSE, disk, wrote,
                      <<"rate_limited">>, "none", NoText, FALSE) EXCEPT
                   !.heard = o, !.wait = WaitTime(attempt[f], j)]
    ELSE IF variant = "gemini"
         THEN [Caught("terminal", disk, wrote, <<"error">>) EXCEPT !.heard = o]
         ELSE [BehindClose("raise", NoText, <<"error">>) EXCEPT !.heard = o]

PropagatesWriteFailure == FALSE

\* log_api_call: "except Exception as e: print(...)" around the write
SwallowsWriteFailure == TRUE

\* the block's calls of log_api_call have run: its effect
Logged(e) ==
    IF e.log # <<>> /\ ~sink_ok /\ ~SwallowsWriteFailure
    THEN Caught("sink", disk, wrote, <<>>)
    ELSE e

\* "api_key_index=self.current_key_index" of a record, read when it is logged
LoggedKeyIndex(idx) == idx

\* apply effect e of file f's task; s is the number of free permits before a release
Apply(f, e0, s) ==
    LET e == Logged(e0) IN
    /\ pc' = [pc EXCEPT ![f] = e.pc]
    /\ result' = [result EXCEPT ![f] = e.result]
    /\ cause' = [cause EXCEPT ![f] = e.cause]
    /\ sem' = IF e.release THEN s + 1 ELSE s
    /\ disk' = e.disk
    /\ wrote' = e.wrote
    /\ succeeded' = IF e.result = "success" THEN succeeded \cup {f} ELSE succeeded
    /\ tele' = [tele EXCEPT ![f] = tele[f] \o e.log]
    /\ after' = [after EXCEPT ![f] = e.after]
    /\ text' = [text EXCEPT ![f] = e.text]
    /\ sleeps' = [sleeps EXCEPT ![f] = IF e.pc = "sleeping" THEN @ + 1 ELSE @]
    /\ wait_time' = [wait_time EXCEPT ![f] = e.wait]
    /\ got' = IF observe /\ e.heard # NoOutcome THEN [got EXCEPT ![f] = e.heard] ELSE got
    /\ ret' = IF observe /\ e.returns # NoText THEN [ret EXCEPT ![f] = e.returns] ELSE ret
    /\ artifact' = IF observe /\ e.saved # NoText
                   THEN [artifact EXCEPT ![f] = e.saved] ELSE artifact
    /\ useIdx' = IF trace_keys /\ e.issue
                 THEN [useIdx EXCEPT ![f] = Append(@, current_key_index)] ELSE useIdx
    /\ logIdx' = IF trace_keys
                 THEN [logIdx EXCEPT ![f] =
                         @ \o [i \in 1..Len(e.log) |-> LoggedKeyIndex(current_key_index)]]
                 ELSE logIdx
    /\ IF e.issue
       THEN /\ lastKey' = KeyAt(current_key_index)
            /\ current_key_index' = NextKeyIndex(current_key_index)
            /\ attemptsIssued' = attemptsIssued + 1
            /\ attempt' = [attempt EXCEPT ![f] = attempt[f] + 1]
       ELSE UNCHANGED <<lastKey, current_key_index, attemptsIssued, attempt>>
    /\ UNCHANGED <<env, provider_arg, registry, providers, default_provider, calls,
                   available, closed, shutdown, fake, max_workers, input_dir, run_limit,
                   runState, runNo, files, skipped_count, summary, closeCalls, observe,
                   sink_ok, trace_keys>>

\* A process is launched: the registry builds the provider, run_workflow scans
\* the input directory and either returns at once or creates the tasks.
StartRun ==
    /\ runState \in {"idle", "returned"}
    /\ runNo < run_limit
    /\ runNo' = runNo + 1
    /\ providers' = LoadProviders(env)
    /\ IF ConstructedAtImport /\ RegistryEmpty(LoadProviders(env))
       THEN /\ registry' = "failed"
            /\ default_provider' = NoDefault
            /\ runState' = "startup_failed"
            /\ UNCHANGED <<files, skipped_count, current_key_index, attemptsIssued, lastKey,
                           pc, attempt, after, text, tele, result, cause, wrote,
                           closeCalls, sleeps, wait_time, got, ret, sem, summary,
                           artifact, useIdx, logIdx,
                           closed, shutdown>>
       ELSE /\ registry' = IF RegistryEmpty(LoadProviders(env)) THEN "failed" ELSE "built"
            /\ default_provider' = IF RegistryEmpty(LoadProviders(env)) THEN NoDefault
                                   ELSE DefaultProvider(LoadProviders(env), env)
            /\ closed' = <<>>
            /\ shutdown' = "none"
            /\ files' = ScanFiles(input_dir, disk)
            /\ skipped_count' = ScanSkipped(input_dir, disk)
            /\ current_key_index' = 0
            /\ attemptsIssued' = 0
            /\ lastKey' = <<"key", 0>>
            /\ pc' = [f \in Eligible |->
                        IF f \in ScanFiles(input_dir, disk) THEN "queued" ELSE "none"]
            /\ attempt' = [f \in Eligible |-> 0]
            /\ after' = [f \in Eligible |-> "none"]
            /\ text' = [f \in Eligible |-> NoText]
            /\ tele' = [f \in Eligible |-> <<>>]
            /\ result' = [f \in Eligible |-> "none"]
            /\ cause' = [f \in Eligible |-> "none"]
            /\ wrote' = {}
            /\ closeCalls' = 0
            /\ sleeps' = [f \in Eligible |-> 0]
            /\ wait_time' = [f \in Eligible |-> 0]
            /\ got' = [f \in Eligible |-> NoOutcome]
            /\ ret' = [f \in Eligible |-> NoText]
            /\ artifact' = [f \in Eligible |-> NoText]
            /\ useIdx' = [f \in Eligible |-> <<>>]
            /\ logIdx' = [f \in Eligible |-> <<>>]
            /\ IF ScanFiles(input_dir, disk) = {}
               THEN /\ runState' = "returned"
                    /\ sem' = 0
                    /\ summary' = [kind |-> IF ScanSkipped(input_dir, disk) = 0
                                            THEN "nothing_found" ELSE "all_done",
                                   processed |-> 0,
                                   skipped |-> ScanSkipped(input_dir, disk),
                                   success_count |-> 0, error_count |-> 0]
               ELSE /\ runState' = "running"
                    /\ sem' = max_workers
                    /\ summary' = NoSummary
    /\ UNCHANGED <<env, provider_arg, calls, available, fake, max_workers, input_dir,
                   run_limit, disk, succeeded, observe, sink_ok, trace_keys>>

\* worker: the semaphore is acquired; process_file runs up to the first
\* network call (read, compact, get_provider, first get_next_key)
Acquire(f) ==
    /\ runState = "running"
    /\ pc[f] = "queued"
    /\ CanAcquire(sem)
    /\ \E io \in ReadChoices :
         Apply(f, IF io # "ok" THEN Caught("read_io", disk, wrote, <<>>)
                  ELSE IF ~Resolved.ok THEN Caught("unknown_provider", disk, wrote, <<>>)
                  ELSE IssueAttempt, sem - 1)

\* the awaited network call of attempt attempt[f] completes
Respond(f) ==
    /\ pc[f] = "calling"
    /\ \E o \in BackendChoices(f, attempt[f]), io \in WriteChoices, j \in JitterChoices :
         Apply(f, OnOutcome(f, o, io, j), sem)

\* the backoff sleep ends
WakeUp(f) ==
    /\ pc[f] = "sleeping"
    /\ Apply(f, IF variant = "gemini" THEN NextIteration(f)
                ELSE BehindClose("continue", NoText, <<>>), sem)

\* OpenAI: client.close() returns; the pending return, raise or continue happens
ClientClosed(f) ==
    /\ pc[f] = "client_close"
    /\ \E io \in WriteChoices :
         Apply(f, CASE after[f] = "return" ->
                        [SaveStep(f, text[f], io, <<>>) EXCEPT !.returns = text[f]]
                    [] after[f] = "raise" -> Caught("terminal", disk, wrote, <<>>)
                    [] OTHER -> NextIteration(f), sem)

GatherDoneFirst == \E f \in files : pc[f] = "done"

\* "results = await asyncio.gather(*tasks)" has every task's result
GatherDone == \A f \in files : pc[f] = "done"

\* run_workflow: gather resolves; an exception of a task propagates out of
\* run_workflow, otherwise the providers are closed (close_all)
Finish ==
    /\ runState = "running"
    /\ GatherDone \/ \E f \in files : pc[f] = "raised"
    /\ IF \E f \in files : pc[f] = "raised"
       THEN /\ runState' = "aborted"
            /\ pc' = [f \in Eligible |->
                        IF pc[f] \in InFlightStates \cup {"queued"} THEN "cancelled"
                        ELSE pc[f]]
            /\ UNCHANGED closeCalls
            /\ UNCHANGED <<closed, shutdown>>
       ELSE /\ runState' = "closing"
            /\ closeCalls' = closeCalls + 1
            /\ closed' = close_all(providers, {}).closed
            /\ shutdown' = close_all(providers, {}).status
            /\ UNCHANGED pc
    /\ UNCHANGED <<env, provider_arg, registry, providers, default_provider, calls,
                   available, fake, max_workers, input_dir, run_limit, current_key_index, attemptsIssued,
                   lastKey, disk, runNo, files, skipped_count, attempt, after,
                   text, tele, result, cause, sem, wrote, succeeded, summary,
                   sleeps, wait_time, observe, got, ret, artifact, useIdx, logIdx, sink_ok,
          trace_keys>>

SuccessCountAll(rs) == Cardinality(files)

\* success_count = sum(1 for r in results if r["status"] == "success")
SuccessCount(rs) == Cardinality({f \in files : rs[f] = "success"})

\* run_workflow: close_all has returned; the summary is computed and printed
\* and the results are returned
Summarise ==
    /\ runState = "closing"
    /\ runState' = "returned"
    /\ summary' = [kind |-> "results",
                   processed |-> Cardinality(files),
                   skipped |-> skipped_count,
                   success_count |-> SuccessCount(result),
                   error_count |-> Cardinality(files) - SuccessCount(result)]
    /\ UNCHANGED <<env, provider_arg, registry, providers, default_provider, calls,
                   available, closed, shutdown, fake,
                   max_workers, input_dir, run_limit, current_key_index, attemptsIssued,
                   lastKey, disk, runNo, files, skipped_count, attempt, after,
                   text, tele, result, cause, sem, wrote, succeeded, closeCalls, pc,
                   sleeps, wait_time, observe, got, ret, artifact, useIdx, logIdx, sink_ok,
          trace_keys>>

Next ==
    \/ StartRun
    \/ \E f \in Eligible : Acquire(f)
    \/ \E f \in Eligible : Respond(f)
    \/ \E f \in Eligible : WakeUp(f)
    \/ \E f \in Eligible : ClientClosed(f)
    \/ Finish
    \/ Summarise

Spec == Init /\ [][Next]_vars

SpecRerun == InitRerun /\ [][Next]_vars

SpecScenario == InitScenario /\ [][Next]_vars

SpecCall == InitCall /\ [][Next]_vars

\* as InitCall, with a telemetry log file that can or cannot be written
InitSink ==
    /\ InitCommon
    /\ fake = "any"
    /\ max_workers = 1
    /\ input_dir = {FileA, FileB}
    /\ run_limit = 1
    /\ observe = TRUE
    /\ sink_ok \in BOOLEAN
    /\ trace_keys = FALSE

SpecSink == InitSink /\ [][Next]_vars

\* one run over two transcripts; the key index every attempt used and the
\* index every record carries are recorded
InitKeys ==
    /\ InitCommon
    /\ fake = "any"
    /\ max_workers \in 1..MaxWorkers
    /\ input_dir = {FileA, FileB}
    /\ run_limit = 1
    /\ observe = FALSE
    /\ sink_ok = TRUE
    /\ trace_keys = TRUE

SpecKeys == InitKeys /\ [][Next]_vars

\* one run over a directory whose names hold a suffix more than once
InitNames ==
    /\ InitCommon
    /\ fake = "any"
    /\ max_workers \in 1..MaxWorkers
    /\ input_dir = {FileAA, FileAJ}
    /\ run_limit = 1
    /\ observe = FALSE
    /\ sink_ok = TRUE
    /\ trace_keys = FALSE

SpecNames == InitNames /\ [][Next]_vars

\* one run over two transcripts, with the scheduling the event loop gives
InitLive ==
    /\ InitCommon
    /\ fake = "any"
    /\ max_workers \in 1..MaxWorkers
    /\ input_dir = {FileA, FileB, Notes}
    /\ run_limit = 1
    /\ observe = FALSE
    /\ sink_ok = TRUE
    /\ trace_keys = FALSE

\* Every awaited operation completes and the task waiting for it is resumed:
\* the semaphore admits a waiting worker once a permit is free, the backend
\* call returns, the sleep ends, client.close() returns, gather returns once
\* every task is done, close_all returns.
Fairness ==
    /\ \A f \in Eligible :
          /\ WF_vars(Acquire(f))
          /\ WF_vars(Respond(f))
          /\ WF_vars(WakeUp(f))
          /\ WF_vars(ClientClosed(f))
    /\ WF_vars(Finish)
    /\ WF_vars(Summarise)

SpecLive == InitLive /\ [][Next]_vars /\ Fairness

\* a launch with any environment and any provider name on the command line
InitStartup ==
    /\ InitState
    /\ env \in EnvChoices
    /\ provider_arg \in {None, "gemini", "openai", "claude"}
    /\ fake = "any"
    /\ max_workers = 1
    /\ input_dir = {FileA, Notes}
    /\ run_limit = 1
    /\ observe = FALSE
    /\ sink_ok = TRUE
    /\ trace_keys = FALSE

SpecStartup == InitStartup /\ [][Next]_vars

\* ------------------------------------------- the registry on its own
pipelineVars ==
    <<fake, max_workers, input_dir, run_limit, current_key_index, attemptsIssued,
      lastKey, disk, runState, runNo, files, skipped_count, pc, attempt, after, text,
      tele, result, cause, sem, summary, wrote, succeeded, closeCalls,
      sleeps, wait_time, observe, got, ret, artifact, useIdx, logIdx, sink_ok,
          trace_keys>>

\* LLMManager(): __init__ and _load_providers
Construct ==
    /\ registry = "unbuilt"
    /\ providers' = LoadProviders(env)
    /\ IF RegistryEmpty(LoadProviders(env))
       THEN /\ registry' = "failed"
            /\ default_provider' = NoDefault
       ELSE /\ registry' = "built"
            /\ default_provider' = DefaultProvider(LoadProviders(env), env)
    /\ UNCHANGED <<env, provider_arg, calls, available, closed, shutdown>>
    /\ UNCHANGED pipelineVars

\* a caller invokes get_provider(name), or get_provider() for name = None
GetProviderCall(name) ==
    /\ registry = "built"
    /\ calls' = [calls EXCEPT ![name] = get_provider(providers, default_provider, name)]
    /\ UNCHANGED <<env, provider_arg, registry, providers, default_provider, available,
                   closed, shutdown>>
    /\ UNCHANGED pipelineVars

GetAvailableCall ==
    /\ registry = "built"
    /\ available' = get_available_providers(providers)
    /\ UNCHANGED <<env, provider_arg, registry, providers, default_provider, calls,
                   closed, shutdown>>
    /\ UNCHANGED pipelineVars

\* a caller awaits close_all(); close() of the providers in raises raises
CloseAllCall ==
    /\ registry = "built"
    /\ shutdown = "none"
    /\ \E raises \in SUBSET ProviderNames :
          /\ closed' = close_all(providers, raises).closed
          /\ shutdown' = close_all(providers, raises).status
    /\ UNCHANGED <<env, provider_arg, registry, providers, default_provider, calls,
                   available>>
    /\ UNCHANGED pipelineVars

NextRegistry ==
    \/ Construct
    \/ \E name \in NameArgs : GetProviderCall(name)
    \/ GetAvailableCall
    \/ CloseAllCall

InitRegistry ==
    /\ InitState
    /\ env \in EnvChoices
    /\ provider_arg = None
    /\ fake = "any"
    /\ max_workers = 1
    /\ input_dir = {}
    /\ run_limit = 0
    /\ observe = FALSE
    /\ sink_ok = TRUE
    /\ trace_keys = FALSE

SpecRegistry == InitRegistry /\ [][NextRegistry]_vars

InFlight == Cardinality({f \in Eligible : pc[f] \in InFlightStates})

TypeOK ==
    /\ current_key_index \in 0..(NumKeys - 1)
    /\ \A p \in Paths : disk[p] \in FileContents
    /\ sem \in 0..MaxWorkers
    /\ \A f \in Eligible : attempt[f] \in 0..MAX_RETRIES
    /\ env \in EnvChoices
    /\ provider_arg \in NameArgs
    /\ registry \in {"unbuilt", "built", "failed"}
    /\ shutdown \in {"none", "completed", "raised"}
    /\ runState \in {"idle", "running", "closing", "returned", "aborted", "startup_failed"}
    /\ \A f \in Eligible : sleeps[f] \in 0..MAX_RETRIES
    /\ \A f \in Eligible :
          wait_time[f] \in 0..(RETRY_BASE_DELAY * (2 ^ MAX_RETRIES) + RETRY_JITTER_MAX)

\* ------------------------------------------------------------- claims
\* generate has been called for f's Work Item in the current run
GenerateCalled(f) ==
    \/ pc[f] \in InFlightStates
    \/ pc[f] \in {"done", "raised", "cancelled"}
          /\ cause[f] \notin {"read_io", "unknown_provider"}

\* C1: a logical generate call, whatever the backend answers, makes at least
\* one and at most max_retries network attempts.
C1_AttemptsBounded ==
    \A f \in Eligible :
        /\ attempt[f] <= MAX_RETRIES
        /\ GenerateCalled(f) => attempt[f] >= 1

C1_Witness ==
    \E f, g \in Eligible :
        /\ cause[f] = "exhausted" /\ attempt[f] = MAX_RETRIES
        /\ cause[g] = "success" /\ attempt[g] = 1

\* C2: the rotation counter of a provider instance starts at 0, stays in
\* 0..N-1 and has advanced by one (mod N) per network attempt and by nothing
\* else, so the k-th attempt on the instance used key[(k-1) mod N], whatever
\* the interleaving of the workers.
C2_RoundRobin ==
    /\ current_key_index \in 0..(Len(api_keys) - 1)
    /\ current_key_index = attemptsIssued % Len(api_keys)
    /\ attemptsIssued > 0 =>
           lastKey = api_keys[((attemptsIssued - 1) % Len(api_keys)) + 1]
    /\ attemptsIssued = 0 => current_key_index = 0

C2_Witness ==
    /\ attemptsIssued > Len(api_keys)
    /\ InFlight >= 2
    /\ \E f \in Eligible : attempt[f] >= 2

\* C3 (as claimed): after a run, every Work Item has its success JSON or its
\* error text on disk, whatever the cause of its outcome.
C3_Original ==
    runState = "returned" =>
        \A f \in files :
            exists(disk, OutputFileName(f)) \/ exists(disk, ErrorFileName(f))

\* C3 (amended): after a run, every Work Item with a success Job Result has
\* its success JSON at the output path, and every Work Item that ended in
\* extraction failure has its error text at the error-artifact path.
C3_Amended ==
    runState = "returned" =>
        \A f \in files :
            /\ result[f] = "success" => exists(disk, OutputFileName(f))
            /\ cause[f] = "extraction" => exists(disk, ErrorFileName(f))

C3_Witness ==
    /\ runState = "returned"
    /\ \E f, g, h \in files :
        /\ result[f] = "success"
        /\ cause[g] = "extraction" /\ disk[ErrorFileName(g)] = "raw"
        /\ cause[h] = "terminal"
        /\ ~exists(disk, OutputFileName(h)) /\ ~exists(disk, ErrorFileName(h))

\* C4: after any sequence of runs over the same input directory, no Work Item
\* has both its success JSON and its error text on disk.
C4_NeverBoth ==
    \A f \in Eligible :
        ~(exists(disk, OutputFileName(f)) /\ exists(disk, ErrorFileName(f)))

\* C5: a failure while processing one Work Item becomes that item's error Job
\* Result at the worker boundary: no task raises into the pool, no sibling is
\* cancelled, the run is not aborted, and when run_workflow returns every
\* Work Item has its own Job Result.
C5_Isolation ==
    /\ runState # "aborted"
    /\ \A f \in Eligible : pc[f] \notin {"raised", "cancelled"}
    /\ runState = "returned" =>
           \A f \in files : pc[f] = "done" /\ result[f] \in {"success", "error"}

C5_Witness ==
    /\ runState = "returned"
    /\ \E f, g, h \in files :
        /\ cause[f] = "terminal" /\ result[f] = "error"
        /\ cause[g] = "exhausted" /\ result[g] = "error"
        /\ result[h] = "success"

\* C6: at most max_workers Work Items are inside process_file at any time.
C6_BoundedInFlight == InFlight <= max_workers

C6_Witness ==
    /\ InFlight = max_workers
    /\ max_workers = MaxWorkers
    /\ \E f \in Eligible : pc[f] = "queued"

\* the eligible files of the input directory
EligibleIn(dir) == {f \in dir : endswith(f, INPUT_FILE_EXT)}

\* a step that launches the pipeline
IsStartRun == runNo' = runNo + 1

\* the launched run returns at once: nothing processed, nothing written, no
\* provider call, every eligible file skipped
NoOpRun ==
    /\ runState' = "returned"
    /\ files' = {}
    /\ summary'.processed = 0
    /\ summary'.skipped = Cardinality(EligibleIn(input_dir))
    /\ disk' = disk
    /\ wrote' = {}
    /\ attemptsIssued' = 0
    /\ \A f \in Eligible : pc'[f] = "none"

\* C7 (as claimed): whatever the first run's outcome, a second run over the
\* same directory processes nothing, writes nothing and calls no provider.
C7_Original ==
    runNo >= 2 => files = {} /\ wrote = {} /\ attemptsIssued = 0

\* C7 (amended): a run that follows a run with no error Job Result writes
\* nothing, calls no provider and reports zero processed, all skipped; in any
\* case the work set of the following run is exactly the eligible files whose
\* output is missing.
C7_Amended ==
    [][ (IsStartRun /\ runNo >= 1) =>
          /\ files' = {f \in EligibleIn(input_dir) : ~exists(disk, OutputFileName(f))}
          /\ summary.error_count = 0 => NoOpRun ]_vars

C7_Witness ==
    /\ runNo = 2
    /\ runState = "returned"
    /\ summary.kind = "all_done"
    /\ summary.skipped = 2
    /\ succeeded = EligibleIn(input_dir)

\* C8: a run whose work set is empty because every eligible input file has
\* its output calls no provider, writes no file and reports processed = 0.
C8_EmptyWorkSet ==
    /\ [][ ( /\ IsStartRun
             /\ EligibleIn(input_dir) # {}
             /\ \A f \in EligibleIn(input_dir) : exists(disk, OutputFileName(f)) )
           => NoOpRun /\ summary'.kind = "all_done" ]_vars
    /\ [](summary.kind = "all_done" =>
             /\ summary.processed = 0
             /\ attemptsIssued = 0
             /\ wrote = {}
             /\ closeCalls = 0)

C8_Witness ==
    /\ runNo >= 2
    /\ runState = "returned"
    /\ files = {}
    /\ skipped_count = Cardinality(EligibleIn(input_dir))
    /\ \E f \in Eligible : disk[OutputFileName(f)] = "partial"

\* C9: the scan puts an eligible file in the work set exactly when no file
\* exists at its output path and counts the others as skipped; no provider
\* call is made for a file outside the work set; a file that once got a
\* success Job Result is never sent to a provider in a later run.
C9_ScanByOutput ==
    /\ [][ IsStartRun =>
             /\ files' = {f \in EligibleIn(input_dir) :
                              ~exists(disk, OutputFileName(f))}
             /\ skipped_count' = Cardinality({f \in EligibleIn(input_dir) :
                                                  exists(disk, OutputFileName(f))}) ]_vars
    /\ [](\A f \in Eligible :
             /\ f \notin files => pc[f] = "none" /\ attempt[f] = 0 /\ tele[f] = <<>>
             /\ (f \in succeeded /\ result[f] # "success") => f \notin files)

C9_Witness ==
    /\ runNo = 2
    /\ runState = "returned"
    /\ skipped_count = 1
    /\ \E f, g \in Eligible :
        /\ files = {f}
        /\ result[f] = "success"
        /\ g \in succeeded /\ g \notin files /\ attempt[g] = 0

\* C10: scenario with files A, B, C, max_workers = 2 and a provider that
\* rate-limits B once: the run ends, and only ends, with 3 success Job
\* Results; B's logical call logs rate_limited then success and nothing else;
\* never more than 2 files are in flight.
C10_Scenario ==
    /\ InFlight <= 2
    /\ runState # "returned" => ENABLED Next
    /\ \A f \in Eligible : pc[f] \notin {"raised", "cancelled"}
    /\ runState = "returned" =>
           /\ \A f \in {FileA, FileB, FileC} : result[f] = "success"
           /\ summary.success_count = 3
           /\ summary.error_count = 0
           /\ tele[FileB] = <<"rate_limited", "success">>
           /\ tele[FileA] = <<"success">>
           /\ tele[FileC] = <<"success">>

C10_Witness ==
    /\ runState = "returned"
    /\ summary.success_count = 3
    /\ tele[FileB] = <<"rate_limited", "success">>
    /\ attempt[FileB] = 2

(***************************************************************************)
(* The retry policy of one logical generate call                           *)
(***************************************************************************)

\* n rate_limited records in a row
RateLimitedPrefix(n) == [i \in 1..n |-> "rate_limited"]

Count(seq, x) == Cardinality({i \in DOMAIN seq : seq[i] = x})

\* the latest response of f's call is a failure
Failed(f) == got[f].kind \in {"empty", "error"}

\* the message of the latest failure carries a marker of the provider's list
CarriesMarker(f) ==
    got[f].kind = "error" /\ (got[f].msg \cap Keywords(variant)) # {}

\* C11: when attempt n fails with a failure that carries no retry marker
\* (an empty or blocked response included), the call ends at that attempt:
\* its telemetry is the n-1 earlier rate_limited records and exactly one
\* error record, it never sleeps or calls the backend again, and its caller
\* gets an error
C11_TerminalFailure ==
    \A f \in files :
        (Failed(f) /\ ~CarriesMarker(f)) =>
            /\ pc[f] \in {"client_close", "done"}
            /\ pc[f] = "client_close" => after[f] = "raise"
            /\ tele[f] = RateLimitedPrefix(attempt[f] - 1) \o <<"error">>
            /\ sleeps[f] = attempt[f] - 1
            /\ wait_time[f] = 0
            /\ pc[f] = "done" => result[f] = "error" /\ cause[f] = "terminal"

C11_Witness ==
    /\ \E f \in files :
        /\ got[f].kind = "empty"
        /\ attempt[f] = MAX_RETRIES
        /\ pc[f] = "done"
    /\ \E f \in files :
        /\ got[f].kind = "error"
        /\ ~CarriesMarker(f)
        /\ attempt[f] = 1
        /\ pc[f] = "done"

\* C12: when the last of max_retries attempts has failed retryably and the
\* call is over, its caller gets an error and the telemetry of the call ends
\* with its only failed_after_retries record; a call whose telemetry holds a
\* failed_after_retries record has used all its attempts and its last
\* response was a retryable failure
C12_Exhausted ==
    \A f \in files :
        /\ (CarriesMarker(f) /\ attempt[f] = MAX_RETRIES /\ pc[f] = "done") =>
              /\ result[f] = "error"
              /\ cause[f] = "exhausted"
              /\ Count(tele[f], "failed_after_retries") = 1
              /\ tele[f][Len(tele[f])] = "failed_after_retries"
              /\ Count(tele[f], "success") = 0
              /\ Count(tele[f], "error") = 0
        /\ Count(tele[f], "failed_after_retries") > 0 =>
              /\ CarriesMarker(f)
              /\ attempt[f] = MAX_RETRIES
              /\ pc[f] = "done"

C12_Witness ==
    \E f \in files :
        /\ CarriesMarker(f)
        /\ attempt[f] = MAX_RETRIES
        /\ pc[f] = "done"
        /\ tele[f] = RateLimitedPrefix(MAX_RETRIES) \o <<"failed_after_retries">>

\* C13: a logical call emits at most max_retries - 1 rate_limited records,
\* sleeps at most max_retries - 1 times, and sleeps only after an attempt
\* n < max_retries
C13_SleepOnlyBeforeRetry ==
    \A f \in files :
        /\ Count(tele[f], "rate_limited") <= MAX_RETRIES - 1
        /\ sleeps[f] <= MAX_RETRIES - 1
        /\ pc[f] = "sleeping" => attempt[f] < MAX_RETRIES

C15_BackoffDelay ==
    \A f \in files :
        IF pc[f] = "sleeping"
        THEN /\ attempt[f] \in 1..MAX_RETRIES
             /\ wait_time[f] >= RETRY_BASE_DELAY * (2 ^ (attempt[f] - 1))
             /\ wait_time[f] <= RETRY_BASE_DELAY * (2 ^ (attempt[f] - 1)) + RETRY_JITTER_MAX
        ELSE wait_time[f] = 0

C15_Witness ==
    \E f, g \in files :
        /\ pc[f] = "sleeping" /\ attempt[f] = 1
        /\ wait_time[f] = RETRY_BASE_DELAY + RETRY_JITTER_MAX
        /\ pc[g] = "sleeping" /\ attempt[g] = MAX_RETRIES
        /\ wait_time[g] = RETRY_BASE_DELAY * (2 ^ (MAX_RETRIES - 1))

(***************************************************************************)
(* Completion of a pipeline run                                            *)
(***************************************************************************)

\* C19: in a run with a non-empty work set close_all is called at most once,
\* and once it has been called every Work Item's task has resolved with a
\* Job Result, so no attempt or sleep is pending or can start; the summary
\* exists only after close_all was called, and the run returns only with
\* close_all called once
C19_ShutdownOnce ==
    /\ closeCalls \in {0, 1}
    /\ closeCalls = 1 =>
          /\ \A f \in files : pc[f] = "done" /\ result[f] \in {"success", "error"}
          /\ InFlight = 0
          /\ sem = max_workers
          /\ runState \in {"closing", "returned"}
    /\ summary.kind = "results" => closeCalls = 1
    /\ (runState \in {"closing", "returned"} /\ files # {}) => closeCalls = 1
    /\ runState = "closing" => summary = NoSummary
    /\ (runState = "returned" /\ files # {}) => summary.kind = "results"

C19_Witness ==
    /\ runState = "closing"
    /\ closeCalls = 1
    /\ summary = NoSummary
    /\ Cardinality(files) = 3
    /\ \E f, g \in files : cause[f] = "exhausted" /\ cause[g] = "success"

\* C20: a run with a non-empty work set that has returned holds exactly one
\* Job Result, success or error, for each Work Item; the summary counts the
\* success results, its two counts add up to the size of the work set, and
\* a result is success exactly when the item's output JSON was written
\* completely in this run
C20_OneResultPerItem ==
    (runState = "returned" /\ files # {}) =>
        /\ \A f \in Eligible :
              IF f \in files THEN result[f] \in {"success", "error"}
              ELSE result[f] = "none"
        /\ summary.processed = Cardinality(files)
        /\ summary.success_count = Cardinality({f \in files : result[f] = "success"})
        /\ summary.error_count = Cardinality({f \in files : result[f] = "error"})
        /\ summary.success_count + summary.error_count = Cardinality(files)
        /\ \A f \in files :
              result[f] = "success" <=>
                  /\ OutputFileName(f) \in wrote
                  /\ disk[OutputFileName(f)] = "json"

C20_Witness ==
    /\ runState = "returned"
    /\ Cardinality(files) = 3
    /\ summary.success_count = 1
    /\ summary.error_count = 2
    /\ \E f \in files : result[f] = "error" /\ disk[OutputFileName(f)] = "partial"

(***************************************************************************)
(* The provider registry                                                   *)
(***************************************************************************)

\* names under which the registry holds a provider
Configured == {providers[i].name : i \in 1..Len(providers)}

\* get_provider(n) was called and gave the instance registered under name
GaveInstanceOf(n, name) ==
    /\ calls[n].ok
    /\ \E i \in 1..Len(providers) :
          providers[i].name = name /\ calls[n].instance = providers[i].instance

\* C16: on a constructed registry, get_provider(name) for a configured name
\* (an element of get_available_providers()) gives the instance registered
\* under that name, get_provider() gives the instance registered under
\* default_provider, and get_provider of a non-empty name that is not
\* configured fails with an error; no call of get_provider changes the
\* registry or the default
C16_Resolve ==
    /\ [](registry = "built" =>
            /\ default_provider \in Configured
            /\ available # NotAsked =>
                  {available[i] : i \in 1..Len(available)} = Configured
            /\ \A n \in NameArgs : calls[n] # NotCalled =>
                  /\ n \in Configured => GaveInstanceOf(n, n)
                  /\ n = None => GaveInstanceOf(n, default_provider)
                  /\ (n \notin {None, ""} /\ n \notin Configured) =>
                        ~calls[n].ok /\ calls[n].error = "ValueError")
    /\ [][calls' # calls =>
            /\ providers' = providers
            /\ default_provider' = default_provider
            /\ registry' = registry]_vars

C16_Witness ==
    /\ registry = "built"
    /\ available = <<"gemini", "openai">>
    /\ default_provider = "openai"
    /\ calls[None].ok /\ calls[None].instance.class = "openai"
    /\ calls["gemini"].ok /\ calls["gemini"].instance.class = "gemini"
    /\ calls["gemini"].instance.api_keys = api_keys
    /\ ~calls["claude"].ok
    /\ ~calls["Gemini"].ok

\* neither key list of the environment holds a non-blank key
NoCredentials ==
    \A raw \in {env.gemini_keys, env.openai_keys} :
        \A i \in 1..Len(raw) : raw[i].core = <<>>

\* C17: with no credential configured the launch fails when the registry is
\* constructed, and then no file is read, no provider call is made and
\* nothing is written; a launch fails only in that case and before any
\* work, and no later error aborts a run: no task raises or is cancelled
C17_StartupFailure ==
    /\ NoCredentials =>
          /\ runState \in {"idle", "startup_failed"}
          /\ registry # "built"
          /\ files = {}
          /\ \A f \in Eligible : pc[f] = "none" /\ attempt[f] = 0 /\ tele[f] = <<>>
          /\ attemptsIssued = 0
          /\ wrote = {}
          /\ disk = [p \in Paths |-> Absent]
    /\ runState = "startup_failed" => NoCredentials
    /\ (~NoCredentials /\ runNo > 0) =>
          /\ registry = "built"
          /\ runState \in {"running", "closing", "returned"}
    /\ runState # "aborted"
    /\ \A f \in Eligible : pc[f] \notin {"raised", "cancelled"}

C17_Witness ==
    /\ runState = "startup_failed"
    /\ runNo = 1
    /\ env.gemini_keys = BlankKeys
    /\ env.openai_keys = NoKeys
    /\ provider_arg = "gemini"

\* C18: when close_all has ended, close() was called on every registered
\* provider and close_all itself completed
C18_CloseAllTolerant ==
    shutdown # "none" =>
        /\ {closed[i] : i \in 1..Len(closed)} = Configured
        /\ shutdown = "completed"

(***************************************************************************)
(* The worker's handling of what generate returned                         *)
(***************************************************************************)

\* the text generate returned for f holds no JSON value at all
NoJsonIn(f) == ret[f] # NoText /\ ret[f].body = "none"

\* C21: when generate returned a text that holds no JSON value and the
\* worker is through, the Job Result is error and nothing was raised,
\* nothing was written at the output path, and, the write of the artifact
\* having succeeded, the error artifact holds that very text; the only other
\* way out is a failed write of the artifact, again an error Job Result
C21_ExtractionFailure ==
    \A f \in files :
        /\ pc[f] # "raised"
        /\ (NoJsonIn(f) /\ pc[f] = "done") =>
              /\ result[f] = "error"
              /\ cause[f] \in {"extraction", "write_io"}
              /\ OutputFileName(f) \notin wrote
              /\ disk[OutputFileName(f)] = Absent
              /\ cause[f] = "extraction" =>
                    /\ ErrorFileName(f) \in wrote
                    /\ disk[ErrorFileName(f)] = "raw"
                    /\ artifact[f] = ret[f]

C21_Witness ==
    \E f \in files :
        /\ NoJsonIn(f)
        /\ ret[f].prose
        /\ pc[f] = "done"
        /\ cause[f] = "extraction"
        /\ artifact[f] = ret[f]
        /\ disk[ErrorFileName(f)] = "raw"

(***************************************************************************)
(* Credentials: which key an attempt uses, which index its record carries  *)
(***************************************************************************)

\* C22: every success, rate_limited and error record carries as its
\* api_key_index the index of the key that the attempt it describes used
C22_LoggedIndexIsUsed ==
    \A f \in files :
        \A i \in 1..Len(logIdx[f]) :
            tele[f][i] \in {"success", "rate_limited", "error"} =>
                /\ i <= Len(useIdx[f])
                /\ logIdx[f][i] = useIdx[f][i]

\* C24: attempt n+1 of a logical call uses the key that follows, in cyclic
\* order, the key its attempt n used
C24_NextCredential ==
    \A f \in files :
        \A n \in 1..(Len(useIdx[f]) - 1) :
            useIdx[f][n + 1] = (useIdx[f][n] + 1) % Len(api_keys)

(***************************************************************************)
(* The telemetry sink                                                      *)
(***************************************************************************)

\* C23: whether or not the log file can be written, a logical call ends as
\* the backend's responses alone dictate: a response with text is returned,
\* a failure without marker ends the call with a terminal error, a failure
\* with marker is retried until the attempts are used up; the records
\* handed to the sink are the same, and no task ever ends because of the
\* sink
C23_SinkFailureSwallowed ==
    \A f \in files :
        /\ cause[f] # "sink"
        /\ pc[f] # "raised"
        /\ got[f].kind = "text" =>
              /\ pc[f] \in {"client_close", "done"}
              /\ (pc[f] = "done" \/ variant = "gemini") => ret[f] = got[f].text
              /\ tele[f] = RateLimitedPrefix(attempt[f] - 1) \o <<"success">>
        /\ (Failed(f) /\ ~CarriesMarker(f)) =>
              /\ pc[f] \in {"client_close", "done"}
              /\ pc[f] = "done" => cause[f] = "terminal"
              /\ tele[f] = RateLimitedPrefix(attempt[f] - 1) \o <<"error">>
        /\ CarriesMarker(f) =>
              /\ pc[f] \in {"sleeping", "client_close", "calling", "done"}
              /\ pc[f] = "done" =>
                    /\ attempt[f] = MAX_RETRIES
                    /\ cause[f] = "exhausted"
                    /\ tele[f] = RateLimitedPrefix(MAX_RETRIES) \o <<"failed_after_retries">>

C23_Witness ==
    /\ ~sink_ok
    /\ \E f, g \in files :
          /\ pc[f] = "done" /\ cause[f] = "success" /\ ret[f] = got[f].text
          /\ attempt[f] = MAX_RETRIES
          /\ pc[g] = "done" /\ cause[g] = "terminal"

(***************************************************************************)
(* The two provider variants                                               *)
(***************************************************************************)

\* the marker set of the retry policy: rate limit, quota, 429, server error, 503
POLICY_MARKERS == {"rate", "quota", "429", "500", "503"}

\* C25: whichever the variant, a failed attempt is treated as retryable (a
\* rate_limited record, not an error record, is emitted for it) exactly when
\* its message holds one of the markers rate, quota, 429, 500, 503
C25_SameRetryDecision ==
    \A f \in files :
        (got[f].kind = "error" /\ tele[f] # <<>>) =>
            ((got[f].msg \cap POLICY_MARKERS) # {}
                <=> "error" \notin {tele[f][i] : i \in 1..Len(tele[f])})

(***************************************************************************)
(* Output paths                                                            *)
(***************************************************************************)

\* C26: a Work Item that ended with an error Job Result for another reason
\* than extraction failure has no file at its output path, and a run that
\* starts then puts it in its work set again
C26_NoOutputOnError ==
    /\ [](\A f \in files :
            (pc[f] = "done" /\ result[f] = "error" /\ cause[f] # "extraction") =>
                /\ OutputFileName(f) \notin wrote
                /\ ~exists(disk, OutputFileName(f)))
    /\ [][\A f \in files :
            (IsStartRun /\ runState' = "running" /\ result[f] = "error"
                /\ cause[f] # "extraction") => f \in files']_vars

\* C27: distinct Work Items have distinct output paths and distinct
\* error-artifact paths, no output path is an error-artifact path, and so a
\* path written by a run was written for one Work Item only
C27_DistinctPaths ==
    /\ \A f, g \in files :
          f # g =>
              /\ OutputFileName(f) # OutputFileName(g)
              /\ ErrorFileName(f) # ErrorFileName(g)
    /\ \A f, g \in files : OutputFileName(f) # ErrorFileName(g)
    /\ Cardinality({f \in files : result[f] = "success"})
          = Cardinality({OutputFileName(f) : f \in {g \in files : result[g] = "success"}})

(***************************************************************************)
(* The limiter                                                             *)
(***************************************************************************)

\* C28: while a run with a non-empty work set is under way or over, the
\* in-flight Work Items and the free permits add up to max_workers, so a
\* resolved Work Item, however it ended, holds no permit; and whenever a
\* Work Item waits while fewer than max_workers are in flight, it can be
\* admitted
C28_PermitConservation ==
    /\ (runState \in {"running", "closing", "returned"} /\ files # {}) =>
          /\ sem \in 0..max_workers
          /\ InFlight + sem = max_workers
    /\ runState = "running" =>
          \A f \in files :
              (pc[f] = "queued" /\ InFlight < max_workers) => ENABLED Acquire(f)

C28_Witness ==
    /\ runState = "running"
    /\ max_workers = 2
    /\ InFlight = 2
    /\ sem = 0
    /\ \E f \in files : pc[f] = "done" /\ cause[f] \in {"exhausted", "terminal", "read_io"}

(***************************************************************************)
(* Termination                                                             *)
(***************************************************************************)

\* C29: with every awaited operation completing and the tasks scheduled
\* fairly, a Work Item that waits for a permit is admitted and gets a Job
\* Result, a logical call that has issued an attempt ends, and a run that
\* has created its tasks returns with a Job Result for every Work Item
C29_Termination ==
    /\ \A f \in Eligible :
          (pc[f] = "queued") ~> (pc[f] = "done" /\ result[f] \in {"success", "error"})
    /\ \A f \in Eligible :
          (pc[f] \in InFlightStates) ~>
              (pc[f] = "done" /\ cause[f] \in {"success", "extraction", "write_io",
                                                  "terminal", "exhausted"})
    /\ (runState = "running") ~>
          (runState = "returned" /\ \A f \in files : result[f] \in {"success", "error"})

C29_Witness ==
    /\ runState = "returned"
    /\ max_workers = 1
    /\ Cardinality(files) = 2
    /\ \E f, g \in files :
          /\ cause[f] = "exhausted" /\ sleeps[f] = MAX_RETRIES
          /\ cause[g] = "success"

(***************************************************************************)
(* The registry's default                                                  *)
(***************************************************************************)

\* the default name the environment asks for, in lower case
ConfiguredDefault ==
    CASE env.default = Unset -> "gemini"
      [] env.default = "OpenAI" -> "openai"
      [] OTHER -> env.default

\* C30: on a constructed registry default_provider names a registered
\* provider: the configured default when that is registered, else the first
\* registered provider; get_provider() without a name, once called, has
\* succeeded; and no step after the construction changes the registered
\* providers or the default
C30_DefaultRegistered ==
    /\ [](registry = "built" =>
            /\ providers # <<>>
            /\ default_provider \in Configured
            /\ default_provider =
                  IF ConfiguredDefault \in Configured THEN ConfiguredDefault
                  ELSE providers[1].name
            /\ calls[None] # NotCalled => calls[None].ok)
    /\ [][registry = "built" =>
            /\ registry' = "built"
            /\ providers' = providers
            /\ default_provider' = default_provider]_vars

C30_Witness ==
    /\ registry = "built"
    /\ env.default = "claude"
    /\ env.gemini_keys = BlankKeys
    /\ default_provider = "openai"
    /\ calls[None].ok
    /\ available # NotAsked
    /\ shutdown # "none"

====
